---------------------------- MODULE Spec2Model ----------------------------
(***************************************************************************)
(* A model of src/deobfuscation/deobfuscate.mjs: the rolling partial-XOR   *)
(* cipher, the extraction of the six literal arrays, the decode phase, the *)
(* a.H resolver pass and the two a.G alias passes, over a syntax tree kept *)
(* as a heap of nodes (node identity matters: the alias pass inserts the   *)
(* recorded node itself, never a copy).                                    *)
(***************************************************************************)
EXTENDS Integers, Sequences, FiniteSets, TLC

VARIABLES
  pc,         \* the statement of the script that runs next
  heap,       \* the syntax tree: node id -> node
  parsed,     \* the tree as parser.parse returned it (never assigned again)
  body,       \* Program.body: the ids of the top-level statements
  agenda,     \* the paths the running traversal has still to visit, each
              \* with the depth of the call stack at its visit
  di,         \* which statement of the decode phase runs next (1..6)
  extracted,  \* const extracted = {}
  decoded,    \* const decoded = {}
  gMap,       \* const gMap = new Map()
  written,    \* how many times fs.writeFileSync(outputPath, ...) returned
  cb,         \* xor's argument b, as char codes
  ck,         \* xor's argument c, as char codes
  cout,       \* xor(b, c)
  cout2,      \* xor(xor(b, c), c)
  cstage      \* how many times xor has been applied

vars == <<pc, heap, parsed, body, agenda, di, extracted, decoded, gMap,
          written, cb, ck, cout, cout2, cstage>>

pipeVars == <<pc, heap, parsed, body, agenda, di, extracted, decoded,
              gMap, written>>
cipherVars == <<cb, ck, cout, cout2, cstage>>

---------------------------------------------------------------------------
(* Bounds of the model.                                                    *)

MaxLen == 3           \* longest enumerated input of xor
MaxKeyLen == 2        \* longest enumerated key of xor
MaxResolveStmts == 1  \* statements of a program that exercises the resolver
MaxAliasStmts == 2    \* statements of a program that exercises the alias passes
StackLimit == 12      \* nested calls of the traversal the engine's stack holds

---------------------------------------------------------------------------
(* Bit operations on naturals (JavaScript & and ^ on char codes).          *)

RECURSIVE BitAnd(_, _)
BitAnd(x, y) ==
  IF x = 0 \/ y = 0 THEN 0
  ELSE (x % 2) * (y % 2) + 2 * BitAnd(x \div 2, y \div 2)

RECURSIVE BitXor(_, _)
BitXor(x, y) ==
  IF x = 0 THEN y
  ELSE IF y = 0 THEN x
  ELSE (((x % 2) + (y % 2)) % 2) + 2 * BitXor(x \div 2, y \div 2)

KeyCap == 32
KeyMask == 31
HighMask == 224

---------------------------------------------------------------------------
(* function xor(b, c): strings are sequences of char codes.                *)

\* d = c.length < 32 ? c.length : 32
KeyLen(c) == IF Len(c) < KeyCap THEN Len(c) ELSE KeyCap

KeyBytesWide(c) == [h \in 1..KeyLen(c) |-> BitAnd(c[h], 63)]

\* e[h] = c.charCodeAt(h) & 31, h < d   (1-based here)
KeyBytes(c) == [h \in 1..KeyLen(c) |-> BitAnd(c[h], KeyMask)]

AdvanceIndexOnXorOnly(c, d, l) ==
  IF BitAnd(l, HighMask) = 0 THEN c ELSE IF c + 1 = d THEN 0 ELSE c + 1

\* c++; c = c === d ? 0 : c   (l is the byte just handled: not consulted)
AdvanceIndex(c, d, l) == IF c + 1 = d THEN 0 ELSE c + 1

\* the loop over b: h is the 1-based position, c the rolling index, m the output
RECURSIVE XorLoop(_, _, _, _, _, _)
XorLoop(b, e, d, h, c, m) ==
  IF h > Len(b) THEN m
  ELSE LET l == b[h]
           o == IF BitAnd(l, HighMask) # 0 THEN BitXor(l, e[c + 1]) ELSE l
       IN XorLoop(b, e, d, h + 1, AdvanceIndex(c, d, l), Append(m, o))

xor(b, c) ==
  IF c = <<>> THEN b
  ELSE XorLoop(b, KeyBytes(c), KeyLen(c), 1, 0, <<>>)

---------------------------------------------------------------------------
(* The inputs of the cipher specification.                                 *)

ByteVals == {0, 31, 32, 65, 128, 255}
KeyVals == {1, 32, 255}

RECURSIVE SeqsUpTo(_, _)
SeqsUpTo(S, n) ==
  IF n = 0 THEN {<<>>}
  ELSE LET shorter == SeqsUpTo(S, n - 1)
       IN shorter \cup {Append(s, x) : s \in {t \in shorter : Len(t) = n - 1}, x \in S}

\* inputs and keys longer than the 32-byte cap
LongLen == KeyCap + 2
LongInputs ==
  { [h \in 1..LongLen |-> 65],
    [h \in 1..LongLen |-> IF (h % 3) = 0 THEN 10 ELSE 97 + h] }
LongKeys ==
  { [h \in 1..LongLen |-> h],
    [h \in 1..LongLen |-> IF h > KeyCap THEN 7 ELSE 2],
    [h \in 1..KeyCap |-> 32 - h + 1] }

CipherInputs == SeqsUpTo(ByteVals, MaxLen) \cup LongInputs
CipherKeys == SeqsUpTo(KeyVals, MaxKeyLen) \cup LongKeys

---------------------------------------------------------------------------
(* JavaScript values, as JSON.parse returns them and property lookup reads *)
(* them.                                                                   *)

VNull == [t |-> "null"]
VUndef == [t |-> "undefined"]
VFn == [t |-> "function"]
VStr(s) == [t |-> "string", s |-> s]
VNum(n) == [t |-> "number", n |-> n]
VBool(b) == [t |-> "boolean", b |-> b]
VArr(e) == [t |-> "array", elems |-> e]
VObj(ks, vs) == [t |-> "object", keys |-> ks, vals |-> vs]

\* String(n) for the numbers the model uses
NumStr == <<"0", "1", "2", "3">>
NumToString(n) == IF n \in 0..(Len(NumStr) - 1) THEN NumStr[n + 1] ELSE "NaN"

\* the array index a property name denotes, or -1
IndexOfName(name) ==
  IF \E i \in 1..Len(NumStr) : NumStr[i] = name
  THEN (CHOOSE i \in 1..Len(NumStr) : NumStr[i] = name) - 1
  ELSE -1

\* own enumerable entry: what "the decoded data has an entry for name" means
HasOwn(v, name) ==
  \/ v.t = "object" /\ \E i \in 1..Len(v.keys) : v.keys[i] = name
  \/ v.t = "array" /\ IndexOfName(name) >= 0 /\ IndexOfName(name) < Len(v.elems)

OwnValue(v, name) ==
  IF v.t = "object"
  THEN v.vals[CHOOSE i \in 1..Len(v.keys) : v.keys[i] = name]
  ELSE v.elems[IndexOfName(name) + 1]

\* methods every object inherits, and those arrays add
ObjectProtoMethods == {"constructor", "toString", "valueOf", "hasOwnProperty"}
ArrayProtoMethods == {"map", "push", "join", "slice"}

\* table[propName] for a table with typeof table === 'object': own entries
\* first, then what the prototype chain supplies
GetProperty(v, name) ==
  IF HasOwn(v, name) THEN OwnValue(v, name)
  ELSE IF v.t = "array" /\ name = "length" THEN VNum(Len(v.elems))
  ELSE IF v.t = "array" /\ name = "__proto__" THEN VArr(<<>>)
  ELSE IF v.t = "object" /\ name = "__proto__" THEN VObj(<<>>, <<>>)
  ELSE IF name \in ObjectProtoMethods THEN VFn
  ELSE IF v.t = "array" /\ name \in ArrayProtoMethods THEN VFn
  ELSE VUndef

---------------------------------------------------------------------------
(* function valueToAst(v).  A rehydrated node is kept as one nested value: *)
(* no visitor of the script matches anything inside it.                    *)

NoNode == [type |-> "undefined"]

RECURSIVE valueToAst(_)
valueToAst(v) ==
  IF v.t = "null" THEN [type |-> "NullLiteral"]
  ELSE IF v.t = "string" THEN [type |-> "StringLiteral", value |-> v.s]
  ELSE IF v.t = "number" THEN [type |-> "NumericLiteral", value |-> v.n]
  ELSE IF v.t = "boolean" THEN [type |-> "BooleanLiteral", value |-> v.b]
  ELSE IF v.t = "array"
    THEN [type |-> "ArrayExpression",
          elements |-> [i \in 1..Len(v.elems) |-> valueToAst(v.elems[i])]]
  ELSE IF v.t = "object"
    THEN [type |-> "ObjectExpression",
          properties |-> [i \in 1..Len(v.keys) |->
             [type |-> "ObjectProperty",
              key |-> [type |-> "StringLiteral", value |-> v.keys[i]],
              value |-> valueToAst(v.vals[i])]]]
  ELSE NoNode

---------------------------------------------------------------------------
(* The library conversions of the decode phase, tabulated on the texts the *)
(* bounded inputs produce: every other text the inputs can produce is not  *)
(* JSON (the empty text, a lone brace, a NUL character).                   *)

TextConfig ==
  <<91, 34, 81, 81, 61, 61, 34, 44, 34, 34, 44, 34, 73, 65, 61, 61, 34, 44,
    34, 34, 44, 34, 81, 119, 61, 61, 34, 44, 34, 34, 44, 34, 81, 81, 61, 61,
    34, 44, 34, 34, 44, 34, 34, 93>>   \* ["QQ==","","IA==","","Qw==","","QQ==","",""]
TextZ == <<123, 34, 102, 111, 111, 34, 58, 52, 50, 44, 34, 34, 58, 55, 125>>  \* {"foo":42,"":7}
TextU == <<91, 55, 44, 34, 115, 34, 93>>                                      \* [7,"s"]
TextL ==
  <<123, 34, 110, 34, 58, 110, 117, 108, 108, 44, 34, 98, 34, 58, 116, 114,
    117, 101, 44, 34, 111, 34, 58, 123, 34, 107, 34, 58, 91, 49, 93, 125,
    125>>                              \* {"n":null,"b":true,"o":{"k":[1]}}
TextEmptyObject == <<123, 125>>        \* {}
TextEmptyArray == <<91, 93>>           \* []
TextBrace == <<123>>                   \* {   (not JSON)

ValConfig ==
  VArr(<<VStr("QQ=="), VStr(""), VStr("IA=="), VStr(""), VStr("Qw=="),
         VStr(""), VStr("QQ=="), VStr(""), VStr("")>>)
ValZ == VObj(<<"foo", "">>, <<VNum(42), VNum(7)>>)
ValU == VArr(<<VNum(7), VStr("s")>>)
ValL ==
  VObj(<<"n", "b", "o">>,
       <<VNull, VBool(TRUE), VObj(<<"k">>, <<VArr(<<VNum(1)>>)>>)>>)

\* a parser that accepts the empty text (as null)
JSONParseLenient(text) ==
  IF text = <<>> THEN [ok |-> TRUE, val |-> VNull]
  ELSE IF text = TextConfig THEN [ok |-> TRUE, val |-> ValConfig]
  ELSE IF text = TextZ THEN [ok |-> TRUE, val |-> ValZ]
  ELSE IF text = TextU THEN [ok |-> TRUE, val |-> ValU]
  ELSE IF text = TextL THEN [ok |-> TRUE, val |-> ValL]
  ELSE IF text = TextEmptyObject THEN [ok |-> TRUE, val |-> VObj(<<>>, <<>>)]
  ELSE IF text = TextEmptyArray THEN [ok |-> TRUE, val |-> VArr(<<>>)]
  ELSE [ok |-> FALSE, val |-> VUndef]

\* JSON.parse(text): [ok, val]; ok = FALSE is the SyntaxError it throws
JSONParse(text) ==
  IF text = TextConfig THEN [ok |-> TRUE, val |-> ValConfig]
  ELSE IF text = TextZ THEN [ok |-> TRUE, val |-> ValZ]
  ELSE IF text = TextU THEN [ok |-> TRUE, val |-> ValU]
  ELSE IF text = TextL THEN [ok |-> TRUE, val |-> ValL]
  ELSE IF text = TextEmptyObject THEN [ok |-> TRUE, val |-> VObj(<<>>, <<>>)]
  ELSE IF text = TextEmptyArray THEN [ok |-> TRUE, val |-> VArr(<<>>)]
  ELSE [ok |-> FALSE, val |-> VUndef]

\* atob(c) of a value of the config table: [ok, bytes]; the argument is
\* converted to a string first, and "undefined" is not base64
Atob(v) ==
  IF v.t # "string" THEN [ok |-> FALSE, bytes |-> <<>>]
  ELSE IF v.s = "" THEN [ok |-> TRUE, bytes |-> <<>>]
  ELSE IF v.s = "QQ==" THEN [ok |-> TRUE, bytes |-> <<65>>]
  ELSE IF v.s = "Qw==" THEN [ok |-> TRUE, bytes |-> <<67>>]
  ELSE IF v.s = "IA==" THEN [ok |-> TRUE, bytes |-> <<32>>]
  ELSE [ok |-> FALSE, bytes |-> <<>>]

\* an element of an extracted array that was not a numeric literal (null)
NullElement == -1

\* String.fromCharCode.apply(null, arr): undefined and [] both give "",
\* null gives char code 0, a number its low 16 bits
FromCharCodes(x) ==
  IF ~x.def THEN <<>>
  ELSE [i \in 1..Len(x.arr) |->
          IF x.arr[i] = NullElement THEN 0 ELSE x.arr[i] % 65536]

\* decoded.t[i], 0-based
ConfigAt(cfg, i) ==
  IF cfg.t = "array" /\ i < Len(cfg.elems) THEN cfg.elems[i + 1] ELSE VUndef

\* function decodeArray(b, c): [ok, val]
decodeArray(b, c) ==
  LET key == Atob(c)
  IN IF ~key.ok THEN [ok |-> FALSE, val |-> VUndef]
     ELSE JSONParse(xor(FromCharCodes(b), key.bytes))

---------------------------------------------------------------------------
(* The syntax tree.  A node is [type, op, computed, a, b, leaf]: a and b   *)
(* are the ids of its children (0: none), in the order the traversal       *)
(* visits them; a leaf keeps its content in leaf.                          *)
(*   MemberExpression      a = object, b = property                        *)
(*   AssignmentExpression  a = left, b = right                             *)
(*   UpdateExpression      a = argument                                    *)
(*   UnaryExpression       a = argument, op = operator                     *)
(*   CallExpression        a = the argument, op = the callee's name        *)
(*   ExpressionStatement   a = expression                                  *)

NoLeaf == [type |-> "-"]

Compound(type, op, computed, a, b) ==
  [type |-> type, op |-> op, computed |-> computed, a |-> a, b |-> b,
   leaf |-> NoLeaf]

LeafNode(leaf) ==
  [type |-> leaf.type, op |-> "", computed |-> FALSE, a |-> 0, b |-> 0,
   leaf |-> leaf]

CompoundTypes ==
  {"MemberExpression", "AssignmentExpression", "UpdateExpression",
   "UnaryExpression", "CallExpression", "ExpressionStatement"}

\* source expressions, before they are laid out in the heap
Id(n) == [k |-> "Identifier", name |-> n]
StrL(s) == [k |-> "StringLiteral", value |-> s]
NumL(n) == [k |-> "NumericLiteral", value |-> n]
Fn(ret, els) == [k |-> "FunctionExpression", ret |-> ret, elements |-> els]
Mem(o, p) == [k |-> "MemberExpression", computed |-> FALSE, a |-> o, b |-> p]
MemC(o, p) == [k |-> "MemberExpression", computed |-> TRUE, a |-> o, b |-> p]
Asg(l, r) == [k |-> "AssignmentExpression", a |-> l, b |-> r]
Upd(x) == [k |-> "UpdateExpression", a |-> x]
Un(op, x) == [k |-> "UnaryExpression", op |-> op, a |-> x]
Call(f, x) == [k |-> "CallExpression", op |-> f, a |-> x]
Call0(f) == [k |-> "CallExpression", op |-> f]
Stmt(x) == [k |-> "ExpressionStatement", a |-> x]

\* nodes whose child ids are moved up by k
Shift(nodes, k) ==
  [i \in 1..Len(nodes) |->
     [nodes[i] EXCEPT !.a = IF @ = 0 THEN 0 ELSE @ + k,
                      !.b = IF @ = 0 THEN 0 ELSE @ + k]]

\* parser.parse: the nodes of an expression, children before their parent,
\* the expression's own node last, ids counted from 1
RECURSIVE Layout(_)
Layout(e) ==
  IF e.k = "Identifier" THEN <<LeafNode([type |-> "Identifier", name |-> e.name])>>
  ELSE IF e.k \in {"StringLiteral", "NumericLiteral"}
    THEN <<LeafNode([type |-> e.k, value |-> e.value])>>
  ELSE IF e.k = "FunctionExpression"
    THEN <<LeafNode([type |-> "FunctionExpression", ret |-> e.ret,
                     elements |-> e.elements])>>
  ELSE IF e.k = "MemberExpression"
    THEN LET x == Layout(e.a)
             y == Shift(Layout(e.b), Len(x))
         IN x \o y \o <<Compound(e.k, "", e.computed, Len(x), Len(x) + Len(y))>>
  ELSE IF e.k = "AssignmentExpression"
    THEN LET x == Layout(e.a)
             y == Shift(Layout(e.b), Len(x))
         IN x \o y \o <<Compound(e.k, "=", FALSE, Len(x), Len(x) + Len(y))>>
  ELSE IF e.k = "CallExpression" /\ "a" \notin DOMAIN e
    THEN <<Compound(e.k, e.op, FALSE, 0, 0)>>
  ELSE LET x == Layout(e.a)
       IN Append(x, Compound(e.k,
                    IF e.k \in {"UnaryExpression", "CallExpression"} THEN e.op
                    ELSE IF e.k = "UpdateExpression" THEN "++" ELSE "",
                    FALSE, Len(x), 0))

\* the heap and Program.body of a sequence of statements
RECURSIVE AllocProgram(_, _, _)
AllocProgram(h, ids, stmts) ==
  IF stmts = <<>> THEN [h |-> h, body |-> ids]
  ELSE LET x == h \o Shift(Layout(Stmt(Head(stmts))), Len(h))
       IN AllocProgram(x, Append(ids, Len(x)), Tail(stmts))

---------------------------------------------------------------------------
(* Paths and the node tests of @babel/types.                               *)

Path(parent, slot) == [parent |-> parent, slot |-> slot]

\* path.node
NodeAt(h, path) == IF path.slot = "a" THEN h[path.parent].a ELSE h[path.parent].b

\* path.replaceWith(node): the parent's slot now holds node
SetNode(h, path, id) ==
  IF path.slot = "a" THEN [h EXCEPT ![path.parent].a = id]
  ELSE [h EXCEPT ![path.parent].b = id]

IsType(h, id, type) == id # 0 /\ h[id].type = type

\* t.isIdentifier(node, { name })
IsIdentifier(h, id, name) ==
  IsType(h, id, "Identifier") /\ h[id].leaf.name = name

\* node.object and node.property: undefined (0) on a node that has none
ObjectOf(h, id) == IF IsType(h, id, "MemberExpression") THEN h[id].a ELSE 0
PropertyOf(h, id) == IF IsType(h, id, "MemberExpression") THEN h[id].b ELSE 0

\* a name that is not statically known (staticPropName's null)
NoName == [ok |-> FALSE, name |-> ""]

\* function staticPropName(prop): the computed flag of the member
\* expression is not consulted
staticPropName(h, prop) ==
  IF IsType(h, prop, "Identifier") THEN [ok |-> TRUE, name |-> h[prop].leaf.name]
  ELSE IF IsType(h, prop, "StringLiteral") THEN [ok |-> TRUE, name |-> h[prop].leaf.value]
  ELSE IF IsType(h, prop, "NumericLiteral")
    THEN [ok |-> TRUE, name |-> NumToString(h[prop].leaf.value)]
  ELSE NoName

\* !name in JavaScript: null and the empty string are both falsy
Falsy(n) == ~n.ok \/ n.name = ""

IsWritePositionAssignOnly(h, path) ==
  LET parent == h[path.parent]
      node == NodeAt(h, path)
  IN parent.type = "AssignmentExpression" /\ parent.a = node

\* the three "ignore LHS" tests on path.parent
IsWritePosition(h, path) ==
  LET parent == h[path.parent]
      node == NodeAt(h, path)
  IN \/ parent.type = "AssignmentExpression" /\ parent.a = node
     \/ parent.type = "UpdateExpression" /\ parent.a = node
     \/ parent.type = "UnaryExpression" /\ parent.op = "delete"

---------------------------------------------------------------------------
(* 1. extract arrays from a.i.*() functions                                *)

TableIds == {"t", "z", "u", "l", "I", "uB"}
EncodedIds == {"z", "u", "l", "I", "uB"}

Undefined == [def |-> FALSE, arr |-> <<>>]

\* function extractReturnedNumericArrayFromFunction(fnNode); the body of a
\* function is kept as what its first return statement returns
extractReturnedNumericArrayFromFunction(h, fn) ==
  IF ~IsType(h, fn, "FunctionExpression") THEN Undefined
  ELSE IF h[fn].leaf.ret # "array" THEN Undefined
  ELSE [def |-> TRUE,
        arr |-> [i \in 1..Len(h[fn].leaf.elements) |->
                   IF h[fn].leaf.elements[i].num
                   THEN h[fn].leaf.elements[i].value ELSE NullElement]]

\* the AssignmentExpression visitor of the first traversal
ExtractHandler(h, ex, node) ==
  LET left == h[node].a
      right == h[node].b
  IN IF ~IsType(h, left, "MemberExpression") THEN ex
     ELSE IF /\ IsIdentifier(h, ObjectOf(h, ObjectOf(h, left)), "a")
             /\ IsIdentifier(h, PropertyOf(h, ObjectOf(h, left)), "i")
             /\ \E key \in TableIds : IsIdentifier(h, PropertyOf(h, left), key)
       THEN LET key == h[PropertyOf(h, left)].leaf.name
                arr == extractReturnedNumericArrayFromFunction(h, right)
            IN IF arr.def THEN [ex EXCEPT ![key] = arr] ELSE ex
       ELSE ex

---------------------------------------------------------------------------
(* 3. Replace the a.H.<key> values                                         *)

\* the shape a.<ns>.<inner.property>.<outer.property> of lines 137-142
IsProxyShape(h, outer, ns) ==
  /\ IsType(h, ObjectOf(h, outer), "MemberExpression")
  /\ IsType(h, ObjectOf(h, ObjectOf(h, outer)), "MemberExpression")
  /\ IsIdentifier(h, ObjectOf(h, ObjectOf(h, ObjectOf(h, outer))), "a")
  /\ IsIdentifier(h, PropertyOf(h, ObjectOf(h, ObjectOf(h, outer))), ns)

\* the value the resolver reads for a matched access, VUndef when it
\* returns before the lookup
ResolveLookup(h, dec, outer) ==
  LET keyName == staticPropName(h, PropertyOf(h, ObjectOf(h, outer)))
      propName == staticPropName(h, PropertyOf(h, outer))
  IN IF Falsy(keyName) \/ keyName.name \notin EncodedIds THEN VUndef
     ELSE IF Falsy(propName) THEN VUndef
     ELSE IF dec[keyName.name].t \notin {"object", "array"} THEN VUndef
     ELSE GetProperty(dec[keyName.name], propName.name)

\* the MemberExpression visitor of the second traversal: the heap after it
ResolveHandler(h, dec, path) ==
  LET outer == NodeAt(h, path)
  IN IF IsWritePosition(h, path) THEN h
     ELSE IF ~IsProxyShape(h, outer, "H") THEN h
     ELSE LET repl == valueToAst(ResolveLookup(h, dec, outer))
          IN IF repl = NoNode THEN h
             ELSE SetNode(Append(h, LeafNode(repl)), path, Len(h) + 1)

---------------------------------------------------------------------------
(* 4. Replace the a.G.<key>                                                *)

EmptyMap == [k \in {} |-> 0]

MapSetFirstWins(m, k, id) ==
  IF k \in DOMAIN m THEN m
  ELSE [x \in DOMAIN m \cup {k} |-> IF x = k THEN id ELSE m[x]]

\* gMap.set(k, right)
MapSet(m, k, id) == [x \in DOMAIN m \cup {k} |-> IF x = k THEN id ELSE m[x]]

\* the test on node.object.object and node.object.property of both passes
IsAliasShape(h, node) ==
  /\ IsIdentifier(h, ObjectOf(h, ObjectOf(h, node)), "a")
  /\ IsIdentifier(h, PropertyOf(h, ObjectOf(h, node)), "G")

\* 1. Collect: the AssignmentExpression visitor
CollectHandler(h, m, node) ==
  LET left == h[node].a
      right == h[node].b
  IN IF ~IsType(h, left, "MemberExpression") THEN m
     ELSE IF ~IsAliasShape(h, left) THEN m
     ELSE LET k == staticPropName(h, PropertyOf(h, left))
          IN IF Falsy(k) THEN m ELSE MapSet(m, k.name, right)

\* 2. Replace: the MemberExpression visitor; path.replaceWith(repl) does
\* nothing when repl is the node already there
SubstituteHandler(h, m, path) ==
  LET node == NodeAt(h, path)
  IN IF ~IsAliasShape(h, node) THEN h
     ELSE LET k == staticPropName(h, PropertyOf(h, node))
          IN IF Falsy(k) THEN h
             ELSE IF k.name \notin DOMAIN m THEN h
             ELSE IF IsWritePosition(h, path) THEN h
             ELSE SetNode(h, path, m[k.name])

---------------------------------------------------------------------------
(* traverse.default(ast, visitor): depth first, a node before its          *)
(* children, the children in the order a, b.  A path whose node the        *)
(* visitor replaced is visited again before anything else.  Leaves have no *)
(* visitor in this script and are not queued.                              *)

IsCompound(h, id) == id # 0 /\ h[id].type \in CompoundTypes

\* a path about to be visited by a call nested depth deep
Frame(parent, slot, depth) == [parent |-> parent, slot |-> slot, depth |-> depth]

ChildPaths(h, id, depth) ==
  IF ~IsCompound(h, id) THEN <<>>
  ELSE (IF IsCompound(h, h[id].a) THEN <<Frame(id, "a", depth)>> ELSE <<>>)
       \o (IF IsCompound(h, h[id].b) THEN <<Frame(id, "b", depth)>> ELSE <<>>)

InitialAgenda(h, stmts) == [i \in 1..Len(stmts) |-> Frame(stmts[i], "a", 1)]

\* the agenda after the visitor ran on its head and left the heap h2: a
\* replaced path is requeued and visited by a nested call, the children of
\* a path that was not replaced are traversed by a nested call
AgendaAfter(h, h2, ag) ==
  IF NodeAt(h2, Head(ag)) # NodeAt(h, Head(ag))
  THEN <<Frame(Head(ag).parent, Head(ag).slot, Head(ag).depth + 1)>> \o Tail(ag)
  ELSE ChildPaths(h2, NodeAt(h2, Head(ag)), Head(ag).depth + 1) \o Tail(ag)

\* the traversal can make the call that visits the head of the agenda
CanVisit == agenda # <<>> /\ Head(agenda).depth <= StackLimit

ExtractVisit ==
  /\ pc = "extract" /\ CanVisit
  /\ LET node == NodeAt(heap, Head(agenda))
     IN extracted' = IF IsType(heap, node, "AssignmentExpression")
                     THEN ExtractHandler(heap, extracted, node) ELSE extracted
  /\ agenda' = AgendaAfter(heap, heap, agenda)
  /\ UNCHANGED <<pc, heap, parsed, body, di, decoded, gMap, written, cipherVars>>

ResolveVisit ==
  /\ pc = "resolve" /\ CanVisit
  /\ heap' = IF IsType(heap, NodeAt(heap, Head(agenda)), "MemberExpression")
             THEN ResolveHandler(heap, decoded, Head(agenda)) ELSE heap
  /\ agenda' = AgendaAfter(heap, heap', agenda)
  /\ UNCHANGED <<pc, parsed, body, di, extracted, decoded, gMap, written, cipherVars>>

CollectVisit ==
  /\ pc = "collect" /\ CanVisit
  /\ LET node == NodeAt(heap, Head(agenda))
     IN gMap' = IF IsType(heap, node, "AssignmentExpression")
                THEN CollectHandler(heap, gMap, node) ELSE gMap
  /\ agenda' = AgendaAfter(heap, heap, agenda)
  /\ UNCHANGED <<pc, heap, parsed, body, di, extracted, decoded, written, cipherVars>>

SubstituteVisit ==
  /\ pc = "substitute" /\ CanVisit
  /\ heap' = IF IsType(heap, NodeAt(heap, Head(agenda)), "MemberExpression")
             THEN SubstituteHandler(heap, gMap, Head(agenda)) ELSE heap
  /\ agenda' = AgendaAfter(heap, heap', agenda)
  /\ UNCHANGED <<pc, parsed, body, di, extracted, decoded, gMap, written, cipherVars>>

NextPhaseResolveFirst(p) ==
  IF p = "extract" THEN "resolve"
  ELSE IF p = "resolve" THEN "collect"
  ELSE IF p = "collect" THEN "substitute"
  ELSE "print"

\* the order of the traversals and what follows each
NextPhase(p) ==
  IF p = "extract" THEN "decode"
  ELSE IF p = "resolve" THEN "collect"
  ELSE IF p = "collect" THEN "substitute"
  ELSE "print"

\* a traversal returns; the next statement of the script is reached
FinishPass ==
  /\ pc \in {"extract", "resolve", "collect", "substitute"}
  /\ agenda = <<>>
  /\ pc' = NextPhase(pc)
  /\ agenda' = IF pc' \in {"resolve", "collect", "substitute"}
               THEN InitialAgenda(heap, body) ELSE <<>>
  /\ UNCHANGED <<heap, parsed, body, di, extracted, decoded, gMap, written,
                 cipherVars>>

\* the recursion of a traversal outgrows the stack: the engine throws a
\* RangeError that nothing catches
StackOverflow ==
  /\ pc \in {"extract", "resolve", "collect", "substitute"}
  /\ agenda # <<>> /\ ~CanVisit
  /\ pc' = "overflow"
  /\ UNCHANGED <<heap, parsed, body, agenda, di, extracted, decoded, gMap, written,
                 cipherVars>>

---------------------------------------------------------------------------
(* 2. Decode the arrays: six statements, in this order                     *)

DecodeOrder == <<"t", "z", "u", "l", "I", "uB">>

\* the index into decoded.t that holds each table's key
ConfigIndex(key) ==
  IF key = "z" THEN 4
  ELSE IF key = "u" THEN 6
  ELSE IF key = "l" THEN 8
  ELSE IF key = "I" THEN 2
  ELSE 0

\* the right-hand side of the statement that decodes DecodeOrder[i]
DecodeResult(ex, dec, i) ==
  IF i = 1 THEN JSONParse(FromCharCodes(ex["t"]))
  ELSE decodeArray(ex[DecodeOrder[i]], ConfigAt(dec["t"], ConfigIndex(DecodeOrder[i])))

DecodeOk ==
  /\ pc = "decode"
  /\ DecodeResult(extracted, decoded, di).ok
  /\ decoded' = [decoded EXCEPT ![DecodeOrder[di]] = DecodeResult(extracted, decoded, di).val]
  /\ IF di = Len(DecodeOrder)
     THEN pc' = "resolve" /\ agenda' = InitialAgenda(heap, body) /\ di' = di
     ELSE pc' = pc /\ agenda' = agenda /\ di' = di + 1
  /\ UNCHANGED <<heap, parsed, body, extracted, gMap, written, cipherVars>>

\* JSON.parse or atob throws: nothing catches it
DecodeThrow ==
  /\ pc = "decode"
  /\ ~DecodeResult(extracted, decoded, di).ok
  /\ pc' = "aborted"
  /\ UNCHANGED <<heap, parsed, body, agenda, di, extracted, decoded, gMap,
                 written, cipherVars>>

\* generate.default(ast, ...) and fs.writeFileSync(outputPath, out, 'utf8')
WriteOutput ==
  /\ pc = "print"
  /\ written' = written + 1
  /\ pc' = "done"
  /\ UNCHANGED <<heap, parsed, body, agenda, di, extracted, decoded, gMap,
                 cipherVars>>

---------------------------------------------------------------------------
(* The input programs.                                                     *)

\* a text as the elements of an array literal
Elements(text) == [i \in 1..Len(text) |-> [num |-> TRUE, value |-> text[i]]]

\* the plain text of each table and the key bytes the config table names
\* for it (the obfuscator stores xor(text, key), which xor decodes again)
TableText(key) ==
  IF key = "t" THEN TextConfig
  ELSE IF key = "z" THEN TextZ
  ELSE IF key = "u" THEN TextU
  ELSE IF key = "l" THEN TextL
  ELSE IF key = "I" THEN TextEmptyObject
  ELSE TextEmptyArray

TableKeyBytes(key) ==
  IF key = "t" THEN <<>> ELSE Atob(ConfigAt(ValConfig, ConfigIndex(key))).bytes

ai(key) == Mem(Mem(Id("a"), Id("i")), Id(key))

\* a.i.<key> = function () { return [ ... ]; }
GoodTable(key) ==
  Asg(ai(key), Fn("array", Elements(xor(TableText(key), TableKeyBytes(key)))))

\* how the extraction statement of one table may differ from the good one
Defects == {"absent", "noReturn", "notFunction", "notJSON", "hole", "emptyConfig"}

DefectiveTable(key, defect) ==
  IF defect = "noReturn" THEN <<Asg(ai(key), Fn("none", <<>>))>>
  ELSE IF defect = "notFunction" THEN <<Asg(ai(key), Call0("make"))>>
  ELSE IF defect = "notJSON"
    THEN <<Asg(ai(key), Fn("array", Elements(xor(TextBrace, TableKeyBytes(key)))))>>
  ELSE IF defect = "hole"
    THEN <<Asg(ai(key), Fn("array", <<[num |-> FALSE, value |-> 0]>>))>>
  ELSE IF defect = "emptyConfig"
    THEN <<Asg(ai("t"), Fn("array", Elements(TextEmptyArray)))>>
  ELSE <<>>

RECURSIVE Prelude(_, _, _)
Prelude(i, badKey, defect) ==
  IF i > Len(DecodeOrder) THEN <<>>
  ELSE (IF DecodeOrder[i] = badKey THEN DefectiveTable(badKey, defect)
        ELSE <<GoodTable(DecodeOrder[i])>>)
       \o Prelude(i + 1, badKey, defect)

GoodPrelude == Prelude(1, "", "absent")

aH(key, prop) == Mem(Mem(Mem(Id("a"), Id("H")), Id(key)), Id(prop))
aHc(key, prop) == MemC(Mem(Mem(Id("a"), Id("H")), Id(key)), prop)
aG(key) == Mem(Mem(Id("a"), Id("G")), Id(key))
aGc(prop) == MemC(Mem(Id("a"), Id("G")), prop)

\* statements for the resolver
ResolveStmts ==
  << Call("log", aH("z", "foo")),
    Asg(aH("z", "foo"), NumL(5)),
    Upd(aH("z", "foo")),
    Un("delete", aH("z", "foo")),
    Un("typeof", aH("z", "foo")),
    Call("log", aH("z", "bar")),
    Call("log", aH("u", "length")),
    Call("log", aH("z", "__proto__")),
    Call("log", aH("z", "toString")),
    Call("log", aH("q", "foo")),
    Call("log", aH("I", "foo")),
    Call("log", aH("uB", "map")),
    Call("log", aH("l", "o")),
    Call("log", aH("l", "n")),
    Call("log", aH("l", "b")),
    Call("log", aHc("z", Id("foo"))),
    Call("log", aHc("z", StrL("foo"))),
    Call("log", aHc("z", StrL(""))),
    Call("log", aHc("u", NumL(1))),
    Call("log", aHc("u", NumL(3))),
    Call("log", aHc("z", Call0("pick"))),
    Asg(aHc("z", StrL("foo")), aH("u", "0")),
    Asg(Mem(aH("z", "foo"), Id("bar")), NumL(5)) >>

\* statements for the alias passes
AliasStmts ==
  << Asg(aG("x"), Call0("compute")),
    Call("later", aG("x")),
    Asg(aG("x"), Call("f", aG("x"))),
    Asg(aG("x"), aG("y")),
    Asg(aG("y"), aG("x")),
    Asg(aG("y"), NumL(1)),
    Asg(aG("x"), aG("x")),
    Upd(aG("x")),
    Un("delete", aG("x")),
    Call("log", aG("w")),
    Call("log", aGc(Id("x"))),
    Asg(aH("z", "foo"), aG("x")) >>

\* a body is chosen by the indices of its statements in one catalogue
StmtsOf(catalogue, idxs) == [i \in 1..Len(idxs) |-> catalogue[idxs[i]]]

\* the programs: every body after a good prelude, and one fixed body after
\* each defective prelude
ProgramChoices ==
  {[kind |-> "resolve", idxs |-> s, key |-> "", defect |-> ""] :
     s \in SeqsUpTo(1..Len(ResolveStmts), MaxResolveStmts) \ {<<>>}}
  \cup {[kind |-> "alias", idxs |-> s, key |-> "", defect |-> ""] :
     s \in SeqsUpTo(1..Len(AliasStmts), MaxAliasStmts) \ {<<>>}}
  \cup {[kind |-> "defect", idxs |-> <<1>>, key |-> key, defect |-> defect] :
     key \in TableIds, defect \in Defects}

ProgramOf(c) ==
  IF c.kind = "resolve" THEN GoodPrelude \o StmtsOf(ResolveStmts, c.idxs)
  ELSE IF c.kind = "alias" THEN GoodPrelude \o StmtsOf(AliasStmts, c.idxs)
  ELSE Prelude(1, c.key, c.defect) \o StmtsOf(ResolveStmts, c.idxs)

---------------------------------------------------------------------------
(* The pipeline specification.                                             *)

CipherIdle ==
  cb = <<>> /\ ck = <<>> /\ cout = <<>> /\ cout2 = <<>> /\ cstage = 0

Init ==
  /\ \E c \in ProgramChoices :
       LET x == AllocProgram(<<>>, <<>>, ProgramOf(c))
       IN /\ heap = x.h
          /\ parsed = x.h
          /\ body = x.body
          /\ agenda = InitialAgenda(x.h, x.body)
  /\ pc = "extract"
  /\ di = 1
  /\ extracted = [k \in TableIds |-> Undefined]
  /\ decoded = [k \in TableIds |-> VUndef]
  /\ gMap = EmptyMap
  /\ written = 0
  /\ CipherIdle

Next ==
  \/ ExtractVisit
  \/ DecodeOk
  \/ DecodeThrow
  \/ ResolveVisit
  \/ CollectVisit
  \/ SubstituteVisit
  \/ FinishPass
  \/ StackOverflow
  \/ WriteOutput

Spec == Init /\ [][Next]_vars

\* the script is one synchronous thread: a step that can be taken is taken
LiveSpec == Init /\ [][Next]_vars /\ WF_vars(Next)

---------------------------------------------------------------------------
(* The cipher specification: xor applied once, then again to its result.   *)

PipeIdle ==
  /\ pc = "cipher" /\ heap = <<>> /\ parsed = <<>> /\ body = <<>>
  /\ agenda = <<>> /\ di = 1
  /\ extracted = [k \in TableIds |-> Undefined]
  /\ decoded = [k \in TableIds |-> VUndef]
  /\ gMap = EmptyMap /\ written = 0

InitCipher ==
  /\ cb \in CipherInputs
  /\ ck \in CipherKeys
  /\ cout = <<>> /\ cout2 = <<>> /\ cstage = 0
  /\ PipeIdle

ApplyXor ==
  /\ cstage = 0
  /\ cout' = xor(cb, ck)
  /\ cstage' = 1
  /\ UNCHANGED <<cb, ck, cout2, pipeVars>>

ApplyXorAgain ==
  /\ cstage = 1
  /\ cout2' = xor(cout, ck)
  /\ cstage' = 2
  /\ UNCHANGED <<cb, ck, cout, pipeVars>>

NextCipher == ApplyXor \/ ApplyXorAgain

SpecCipher == InitCipher /\ [][NextCipher]_vars

---------------------------------------------------------------------------
(* Reading the tree back.                                                  *)

\* the expression rooted at id, unfolded (children by value, ids forgotten)
\* down to the given depth; deeper nodes read "..."
RECURSIVE Unfold(_, _, _)
Unfold(h, id, depth) ==
  IF id = 0 THEN <<>>
  ELSE IF ~IsCompound(h, id) THEN <<h[id].leaf>>
  ELSE IF depth = 0 THEN <<"...">>
  ELSE <<h[id].type, h[id].op, h[id].computed,
         Unfold(h, h[id].a, depth - 1), Unfold(h, h[id].b, depth - 1)>>

\* deep enough for every expression of the input programs
UnfoldDepth == 8

Expr(h, id) == Unfold(h, id, UnfoldDepth)

\* the source expression e, unfolded the same way
ExprOf(e) == LET x == Layout(e) IN Expr(x, Len(x))

\* the expressions of the top-level statements
Output(h, stmts) == [i \in 1..Len(stmts) |-> Expr(h, h[stmts[i]].a)]

---------------------------------------------------------------------------
(* Vocabulary of the properties.                                           *)

\* a property name that is statically determined: a non-computed
\* identifier, a string literal or a numeric literal
IsStaticName(h, member) ==
  \/ IsType(h, PropertyOf(h, member), "Identifier") /\ ~h[member].computed
  \/ IsType(h, PropertyOf(h, member), "StringLiteral")
  \/ IsType(h, PropertyOf(h, member), "NumericLiteral")

NameOf(h, member) == staticPropName(h, PropertyOf(h, member)).name

\* a.H.<tableKey>.<fieldName> with both names static and tableKey one of
\* the five encoded tables
IsTableAccess(h, id) ==
  /\ IsType(h, id, "MemberExpression")
  /\ IsProxyShape(h, id, "H")
  /\ IsStaticName(h, ObjectOf(h, id))
  /\ NameOf(h, ObjectOf(h, id)) \in EncodedIds
  /\ IsStaticName(h, id)

TableOf(h, dec, id) == dec[NameOf(h, ObjectOf(h, id))]

\* a.G.<key>, the key as the alias passes read it
IsAliasAccess(h, id) ==
  /\ IsType(h, id, "MemberExpression")
  /\ IsAliasShape(h, id)
  /\ ~Falsy(staticPropName(h, PropertyOf(h, id)))

\* the node p holds, in slot a, the target of a write: the left-hand side
\* of an assignment, the argument of ++/--, the operand of delete
IsWriter(h, p) ==
  \/ h[p].type \in {"AssignmentExpression", "UpdateExpression"}
  \/ h[p].type = "UnaryExpression" /\ h[p].op = "delete"

IsRead(h, path) == ~(path.slot = "a" /\ IsWriter(h, path.parent))

\* the visitor of the pass is about to run on the head of the agenda
Visiting(phase) == pc = phase /\ CanVisit

Current == NodeAt(heap, Head(agenda))

---------------------------------------------------------------------------
(* C5. Cipher reference behaviour: xor(b, k) is as long as b; it is b when *)
(* k is empty; otherwise byte h (0-based) becomes b[h] XOR (k[h mod d] AND *)
(* 0x1F), d = min(length(k), 32), when b[h] has a bit of 0xE0 set, and     *)
(* stays b[h] when it has none (b[h] <= 31): such a byte still advances    *)
(* the key index, and key bytes past the first 32 are never used.          *)

RefLen(k) == IF Len(k) < 32 THEN Len(k) ELSE 32

RefByte(b, k, h) ==
  IF b[h] % 256 >= 32 THEN BitXor(b[h], k[((h - 1) % RefLen(k)) + 1] % 32)
  ELSE b[h]

C5_CipherReference ==
  cstage >= 1 =>
    /\ Len(cout) = Len(cb)
    /\ ck = <<>> => cout = cb
    /\ ck # <<>> => \A h \in 1..Len(cb) : cout[h] = RefByte(cb, ck, h)
    /\ \A h \in 1..Len(cb) : cb[h] <= 31 => cout[h] = cb[h]

\* a key and an input longer than 32, a control byte passed through and
\* bytes after it transformed
C5_Witness ==
  /\ cstage = 1 /\ Len(ck) > 32 /\ Len(cb) > 32
  /\ \E h \in 1..Len(cb) : cb[h] <= 31 /\ cout[h] = cb[h]
  /\ \E h \in 33..Len(cb) : cout[h] # cb[h]

---------------------------------------------------------------------------
(* C6. Cipher involution: when every byte of b has a bit of 0xE0 set and   *)
(* the key is not empty, xor(xor(b, k), k) = b.                            *)

C6_Involution ==
  (cstage = 2 /\ ck # <<>> /\ \A h \in 1..Len(cb) : BitAnd(cb[h], HighMask) # 0)
    => cout2 = cb

C6_Witness ==
  /\ cstage = 2 /\ ck # <<>> /\ cb # <<>>
  /\ \A h \in 1..Len(cb) : BitAnd(cb[h], HighMask) # 0
  /\ cout # cb
  /\ cout2 = cb

---------------------------------------------------------------------------
(* C1. Write-position protection: in the resolver pass and in the alias    *)
(* substitute pass, a matched member access that is the left-hand side of  *)
(* an assignment, the argument of ++/-- or the operand of delete is never  *)
(* replaced, whether or not a table entry or an alias exists for it: the   *)
(* writer still holds the same node, and the node's expression is what the *)
(* parser produced.                                                        *)

\* a.H.<key>.<prop> as the resolver matches it
IsResolverMatch(h, id) ==
  /\ IsType(h, id, "MemberExpression")
  /\ IsProxyShape(h, id, "H")
  /\ ~Falsy(staticPropName(h, PropertyOf(h, ObjectOf(h, id))))
  /\ staticPropName(h, PropertyOf(h, ObjectOf(h, id))).name \in EncodedIds
  /\ ~Falsy(staticPropName(h, PropertyOf(h, id)))

C1_WriteProtection ==
  \A p \in 1..Len(parsed) :
    (IsWriter(parsed, p)
       /\ (IsResolverMatch(parsed, parsed[p].a) \/ IsAliasAccess(parsed, parsed[p].a)))
    => /\ heap[p].a = parsed[p].a
       /\ Expr(heap, heap[p].a) = Expr(parsed, parsed[p].a)

\* a finished run that replaced something, with an assignment to a table
\* access that has an entry and an assignment to an alias that is recorded
C1_Witness ==
  /\ pc = "done" /\ heap # parsed
  /\ \E p \in 1..Len(parsed) :
       /\ parsed[p].type = "AssignmentExpression"
       /\ IsTableAccess(parsed, parsed[p].a)
       /\ HasOwn(TableOf(parsed, decoded, parsed[p].a), NameOf(parsed, parsed[p].a))
  /\ \E q \in 1..Len(parsed) :
       /\ parsed[q].type = "AssignmentExpression"
       /\ IsAliasAccess(parsed, parsed[q].a)
       /\ NameOf(parsed, parsed[q].a) \in DOMAIN gMap

---------------------------------------------------------------------------
(* C2. Read substitution: whenever the resolver visits a read occurrence   *)
(* of a.H.<tableKey>.<fieldName>, tableKey one of z, u, l, I, uB and the   *)
(* field statically named, and the decoded table has an entry for the      *)
(* field, it replaces the whole access by the literal node rehydrated from *)
(* that entry.                                                             *)

C2_ReadSubstitution ==
  [][ ( /\ Visiting("resolve")
        /\ IsTableAccess(heap, Current)
        /\ IsRead(heap, Head(agenda))
        /\ HasOwn(TableOf(heap, decoded, Current), NameOf(heap, Current)) )
      => /\ NodeAt(heap', Head(agenda)) # Current
         /\ heap'[NodeAt(heap', Head(agenda))].leaf
              = valueToAst(OwnValue(TableOf(heap, decoded, Current),
                                    NameOf(heap, Current))) ]_vars

---------------------------------------------------------------------------
(* C3. Resolution miss: whenever the resolver visits a matched access      *)
(* a.H.<tableKey>.<fieldName> whose field is not an entry of the decoded   *)
(* table, object or array, it leaves the tree as it is.                    *)

C3_ResolutionMiss ==
  [][ ( /\ Visiting("resolve")
        /\ IsTableAccess(heap, Current)
        /\ TableOf(heap, decoded, Current).t \in {"object", "array"}
        /\ ~HasOwn(TableOf(heap, decoded, Current), NameOf(heap, Current)) )
      => heap' = heap ]_vars

---------------------------------------------------------------------------
(* C4. Alias inlining: the alias map is complete when the substitute pass  *)
(* starts (for every key the right-hand side of the last assignment to it  *)
(* in traversal order) and never changes afterwards; the substitute pass   *)
(* puts the recorded node in place of every read of a.G.<key> it visits    *)
(* whose key is in the map, leaves a read of an absent key alone, and      *)
(* every assignment statement stays a statement assigning to the same      *)
(* target; a.G.x = compute(); later(a.G.x) becomes                         *)
(* a.G.x = compute(); later(compute()).                                    *)

\* the compound nodes below id in the order a traversal enters them
RECURSIVE PreOrder(_, _, _)
PreOrder(h, id, depth) ==
  IF ~IsCompound(h, id) \/ depth = 0 THEN <<>>
  ELSE <<id>> \o PreOrder(h, h[id].a, depth - 1) \o PreOrder(h, h[id].b, depth - 1)

RECURSIVE VisitOrder(_, _)
VisitOrder(h, stmts) ==
  IF stmts = <<>> THEN <<>>
  ELSE PreOrder(h, h[Head(stmts)].a, UnfoldDepth) \o VisitOrder(h, Tail(stmts))

\* the positions, in traversal order, of the assignments to a.G.<k>
AssignmentsTo(h, order, k) ==
  {i \in 1..Len(order) :
     /\ h[order[i]].type = "AssignmentExpression"
     /\ IsAliasAccess(h, h[order[i]].a)
     /\ NameOf(h, h[order[i]].a) = k}

AliasKeys == {"x", "y", "w", "k", "foo"}

LastWins(h, stmts) ==
  LET order == VisitOrder(h, stmts)
      keys == {k \in AliasKeys : AssignmentsTo(h, order, k) # {}}
  IN [k \in keys |->
        h[order[CHOOSE i \in AssignmentsTo(h, order, k) :
                  \A j \in AssignmentsTo(h, order, k) : j <= i]].b]

IsExample(h, stmts) ==
  /\ Len(stmts) = Len(DecodeOrder) + 2
  /\ Expr(h, h[stmts[Len(stmts) - 1]].a) = ExprOf(Asg(aG("x"), Call0("compute")))
  /\ Expr(h, h[stmts[Len(stmts)]].a) = ExprOf(Call("later", aG("x")))

C4_State ==
  /\ \A i \in 1..Len(body) :
       parsed[parsed[body[i]].a].type = "AssignmentExpression"
       => /\ heap[body[i]].a = parsed[body[i]].a
          /\ heap[heap[body[i]].a].a = parsed[parsed[body[i]].a].a
  /\ pc = "done"
       => \A i \in 1..Len(VisitOrder(heap, body)) : \A slot \in {"a", "b"} :
            LET at == Path(VisitOrder(heap, body)[i], slot)
            IN (IsAliasAccess(heap, NodeAt(heap, at))
                  /\ NameOf(heap, NodeAt(heap, at)) \in DOMAIN gMap)
               => \/ ~IsRead(heap, at)
                  \/ NodeAt(heap, at) = gMap[NameOf(heap, NodeAt(heap, at))]
  /\ (pc = "done" /\ IsExample(parsed, body))
       => /\ Expr(heap, heap[body[Len(body) - 1]].a) = ExprOf(Asg(aG("x"), Call0("compute")))
          /\ Expr(heap, heap[body[Len(body)]].a) = ExprOf(Call("later", Call0("compute")))

C4_Step ==
  /\ (pc = "collect" /\ pc' = "substitute") => gMap = LastWins(heap, body)
  /\ pc = "substitute" => gMap' = gMap
  /\ ( /\ Visiting("substitute")
       /\ IsAliasAccess(heap, Current)
       /\ IsRead(heap, Head(agenda)) )
     => IF NameOf(heap, Current) \in DOMAIN gMap
        THEN NodeAt(heap', Head(agenda)) = gMap[NameOf(heap, Current)]
        ELSE heap' = heap

C4_AliasInlining == []C4_State /\ [][C4_Step]_vars

\* a finished run in which a read that stands before the assignment, and
\* one after it, now hold the recorded node
C4_Witness ==
  /\ pc = "done" /\ "x" \in DOMAIN gMap
  /\ \E p \in 1..Len(parsed) :
       /\ parsed[p].type = "CallExpression"
       /\ IsAliasAccess(parsed, parsed[p].a)
       /\ heap[p].a = gMap["x"]
       /\ heap[p].a # parsed[p].a
       /\ p < CHOOSE q \in 1..Len(parsed) :
                 parsed[q].type = "AssignmentExpression" /\ parsed[q].b = gMap["x"]

---------------------------------------------------------------------------
(* C7. Phase ordering and all-or-nothing output: the phases follow one     *)
(* another in the order extract, decode, resolve, inline (collect, then    *)
(* substitute), print; the tree is not changed before all six tables are   *)
(* decoded, so a run that fails in extraction or decoding has changed      *)
(* nothing; the output is written at most once, by the last step and       *)
(* nowhere else, so a run that aborts has never written it.                *)

PhaseOrder ==
  { <<"extract", "decode">>, <<"decode", "resolve">>, <<"decode", "aborted">>,
    <<"resolve", "collect">>, <<"collect", "substitute">>,
    <<"substitute", "print">>, <<"print", "done">> }
  \cup { <<p, "overflow">> : p \in {"extract", "resolve", "collect", "substitute"} }

C7_State ==
  /\ written <= 1
  /\ written = 1 <=> pc = "done"
  /\ pc = "aborted" => heap = parsed
  /\ pc \in {"extract", "decode"} => heap = parsed
  /\ heap # parsed => \A k \in TableIds : decoded[k].t # "undefined"

C7_Step ==
  /\ pc' # pc => <<pc, pc'>> \in PhaseOrder
  /\ written' # written => pc = "print"
  /\ heap' # heap => pc \in {"resolve", "substitute"}

C7_PhaseOrder == []C7_State /\ [][C7_Step]_vars

C7_Witness == pc = "done" /\ written = 1 /\ heap # parsed

---------------------------------------------------------------------------
(* C8. Extraction failure, as claimed: when the array of one of the six    *)
(* identifiers was not extracted, no table at all is decoded.              *)

SomeArrayMissing == pc # "extract" /\ \E k \in TableIds : ~extracted[k].def

---------------------------------------------------------------------------
(* C9. Termination: the alias substitute pass finishes after finitely many *)
(* replacements whatever the alias map holds, also when the expression     *)
(* recorded for a key contains a read of the alias namespace: once the     *)
(* pass has started, the run goes on to print.                             *)

C9_Termination == (pc = "substitute") ~> (pc = "print")

---------------------------------------------------------------------------
(* C10. Static-name matching only: a computed access whose property is a   *)
(* variable identifier (a.H.z[foo], a.G[k]) is not treated as naming the   *)
(* field or key of that name: the passes leave it as it is.                *)

C10_StaticNamesOnly ==
  [][ ( /\ Visiting("resolve") \/ Visiting("substitute")
        /\ IsType(heap, Current, "MemberExpression")
        /\ heap[Current].computed
        /\ IsType(heap, PropertyOf(heap, Current), "Identifier") )
      => heap' = heap ]_vars

=============================================================================
